---- MODULE Spec2Model ----
(***************************************************************************)
(* A model of examples/common-whisper.cpp: the decode adapter              *)
(* (read_audio_data), the process-wide resampler pair and the RNNoise      *)
(* frame loop (init_resamplers, uninit_resamplers, resample_audio,         *)
(* denoise_audio) and the timestamp mapper (to_timestamp,                  *)
(* timestamp_to_sample).                                                   *)
(*                                                                         *)
(* Samples are integers (amplitude units) instead of 32-bit floats.        *)
(* The C++ types int and int64_t are modelled with IntBits and WideBits    *)
(* two's-complement bits: TLC's own integers are 32 bits wide, so the      *)
(* widths are scaled down and every operation is computed modulo its width.*)
(***************************************************************************)
EXTENDS Integers, Sequences, FiniteSets, TLC

VARIABLES
    tsCall,         \* timestamp mapper: the arguments and the result of one call
    whisper_ffmpeg, \* the build defines WHISPER_FFMPEG
    source,         \* the audio behind fname: channel count and interleaved samples
    pcmf32,         \* read_audio_data: the caller's mono vector
    pcmf32s,        \* read_audio_data: the caller's channel set
    openDecoders,   \* decoders opened by ma_decoder_init_* and not yet uninit
    rdCall,         \* read_audio_data: the arguments and the outcome of the last call
    g_resamplers_initialized,
    g_resampler_16k_to_48k,
    g_resampler_48k_to_16k,
    dn_pcmf32,      \* denoise_audio: the caller's vector
    dnCall          \* resampler lifecycle / denoise_audio: the last call and what it did

tsVars == <<tsCall>>
rdVars == <<whisper_ffmpeg, source, pcmf32, pcmf32s, openDecoders, rdCall>>
dnVars == <<g_resamplers_initialized, g_resampler_16k_to_48k, g_resampler_48k_to_16k,
            dn_pcmf32, dnCall>>
vars == <<tsVars, rdVars, dnVars>>

(***************************************************************************)
(* Bounds of the model                                                     *)
(***************************************************************************)
IntBits == 11       \* modelled width of int (999 milliseconds fit, as in the program)
WideBits == 29      \* modelled width of int64_t
MaxSmallT == 40     \* timestamps 0..MaxSmallT and WideMax-MaxSmallT..WideMax
MaxHours == 70      \* whole-hour timestamps 0..MaxHours hours
MaxN == 4           \* n_samples in 1..MaxN, and IntMax
MaxFrames == 2      \* an audio source holds 0..MaxFrames frames
MaxPattern == 1     \* sample patterns 0..MaxPattern of an audio source
MaxLeaked == 2      \* read_audio_data is explored until MaxLeaked decoders are left open
MaxInits == 2       \* each resampler instance is initialised at most MaxInits times
MaxQ == 2           \* denoise_audio inputs of 0..MaxQ denoiser frames, plus 0 or 1 sample

(***************************************************************************)
(* Fixed-width arithmetic                                                  *)
(***************************************************************************)
IntMod == 2 ^ IntBits
IntMax == 2 ^ (IntBits - 1) - 1
IntMin == - (2 ^ (IntBits - 1))
WideMod == 2 ^ WideBits
WideMax == 2 ^ (WideBits - 1) - 1
WideMin == - (2 ^ (WideBits - 1))

Abs(x) == IF x < 0 THEN -x ELSE x
Min(a, b) == IF a < b THEN a ELSE b
Max(a, b) == IF a < b THEN b ELSE a

\* C++ integer division truncates toward zero.
TruncDiv(a, b) == IF a >= 0 THEN a \div b ELSE -((-a) \div b)

\* (int) x : conversion of an int64_t to int keeps the low IntBits bits.
CastInt(x) ==
    LET u == x % IntMod
    IN IF u > IntMax THEN u - IntMod ELSE u

\* a * b modulo 2^WideBits, by shift-and-add, a in 0..WideMod-1 and b >= 0.
RECURSIVE MulMod(_, _)
MulMod(a, b) ==
    IF b = 0 THEN 0
    ELSE (((2 * MulMod(a, b \div 2)) % WideMod) + (IF b % 2 = 1 THEN a ELSE 0)) % WideMod

\* The product a * b is representable in int64_t.
MulFits(a, b) ==
    \/ a = 0
    \/ b = 0
    \/ Abs(a) <= WideMax \div Abs(b)
    \/ /\ (a < 0) # (b < 0)
       /\ (-WideMin) % Abs(b) = 0
       /\ Abs(a) = (-WideMin) \div Abs(b)

\* The two's-complement wrap of a * b.
MulWrap(a, b) ==
    LET u == MulMod(a % WideMod, Abs(b))
        s == IF b < 0 THEN (WideMod - u) % WideMod ELSE u
    IN IF s > WideMax THEN s - WideMod ELSE s

\* int64_t multiplication. Signed overflow is undefined behaviour: the
\* result is then any value of the type, the two's-complement wrap (what
\* the usual builds compute) among them.
MulWide(a, b) ==
    IF MulFits(a, b) THEN {a * b}
    ELSE {MulWrap(a, b), WideMin, -1, 0, WideMax}

(***************************************************************************)
(* Decode adapter: read_audio_data                                         *)
(***************************************************************************)

\* The sample at interleaved position i (from 1) of the source with pattern p.
SrcSample(p, i) == 2 * (((i * (p + 1)) % 3) - 1)

Sources ==
    { [ channels |-> c, frames |-> n,
        data |-> [ i \in 1 .. c * n |-> SrcSample(p, i) ] ] :
      c \in 1 .. 2, n \in 0 .. MaxFrames, p \in 0 .. MaxPattern }

\* What the decoder configured by ma_decoder_config_init(ma_format_f32,
\* channels, WHISPER_SAMPLE_RATE) yields for a source: the source's frames
\* converted to the requested channel count (miniaudio copies a mono sample
\* to both channels and averages two channels into one).
DecoderOutput(src, channels) ==
    IF src.channels = channels THEN src.data
    ELSE IF channels = 2
         THEN [ i \in 1 .. 2 * src.frames |-> src.data[(i + 1) \div 2] ]
         ELSE [ i \in 1 .. src.frames |->
                   (src.data[2 * i - 1] + src.data[2 * i]) \div 2 ]

\* std::vector<float>::resize(n): keeps the first elements, value-initialises new ones.
Resize(v, n) == [ i \in 1 .. n |-> IF i <= Len(v) THEN v[i] ELSE 0 ]

\* ma_decoder_read_pcm_frames writing count samples of out at the start of buf.
WriteFrames(buf, out, count) ==
    [ i \in 1 .. Len(buf) |-> IF i <= count THEN out[i] ELSE buf[i] ]

\* A downmix that averages the two channels.
MixMonoAverage(stereo_data, frame_count) ==
    [ i \in 1 .. frame_count |-> (stereo_data[2 * i - 1] + stereo_data[2 * i]) \div 2 ]

\* pcmf32[i] = stereo_data[2*i] + stereo_data[2*i + 1]  (indices from 0 in the code)
MixMono(stereo_data, frame_count) ==
    [ i \in 1 .. frame_count |-> stereo_data[2 * i - 1] + stereo_data[2 * i] ]

\* pcmf32s[0][i] = stereo_data[2*i]; pcmf32s[1][i] = stereo_data[2*i + 1]
SplitChannels(stereo_data, frame_count) ==
    << [ i \in 1 .. frame_count |-> stereo_data[2 * i - 1] ],
       [ i \in 1 .. frame_count |-> stereo_data[2 * i] ] >>

\* The decoder is open after the branches of lines 149-193.
DecoderOpened(fname, e) ==
    IF fname = "-" THEN e.initMemory
    ELSE IF e.initFile THEN TRUE
    ELSE IF whisper_ffmpeg THEN e.ffmpegDecode /\ e.initMemory
    ELSE e.initMemory

\* The outcomes of the external calls one read_audio_data(fname, ...) call
\* makes; the outcome of a call that is not made is left FALSE (0 frames).
\* ma_decoder_read_pcm_frames delivers at most the frames asked for, and at
\* least one when it reports success.
Envs(fname) ==
    { e \in [ initFile : BOOLEAN, ffmpegDecode : BOOLEAN, initMemory : BOOLEAN,
              getLength : BOOLEAN, read : BOOLEAN, frames_read : 0 .. source.frames ] :
        /\ (fname = "-") => ~e.initFile
        /\ (fname = "-" \/ e.initFile \/ ~whisper_ffmpeg) => ~e.ffmpegDecode
        /\ (fname # "-" /\ (e.initFile \/ (whisper_ffmpeg /\ ~e.ffmpegDecode)))
              => ~e.initMemory
        /\ ~DecoderOpened(fname, e) => ~e.getLength
        /\ ~e.getLength => (~e.read /\ e.frames_read = 0)
        /\ e.read => e.frames_read >= 1 }

\* read_audio_data(fname, pcmf32, pcmf32s, stereo) under the outcomes e:
\* the return value, the two vectors on return and what became of the decoder.
read_audio_data(fname, v, vs, stereo, e) ==
    LET channels    == IF stereo THEN 2 ELSE 1
        frame_count == source.frames
        resized     == Resize(v, channels * frame_count)
        buffer      == WriteFrames(resized, DecoderOutput(source, channels),
                                   channels * e.frames_read)
        base        == [ ret |-> FALSE, pcmf32 |-> v, pcmf32s |-> vs,
                         opened |-> FALSE, closed |-> FALSE,
                         lengthOk |-> FALSE, readOk |-> FALSE,
                         frame_count |-> 0, frames_read |-> 0, decoded |-> <<>> ]
    IN IF ~DecoderOpened(fname, e) THEN base
       ELSE IF ~e.getLength THEN [ base EXCEPT !.opened = TRUE ]
       ELSE IF ~e.read THEN
            [ base EXCEPT !.opened = TRUE, !.lengthOk = TRUE,
                          !.frame_count = frame_count, !.frames_read = e.frames_read,
                          !.pcmf32 = buffer, !.decoded = buffer ]
       ELSE [ base EXCEPT !.opened = TRUE, !.closed = TRUE, !.ret = TRUE,
                          !.lengthOk = TRUE, !.readOk = TRUE,
                          !.frame_count = frame_count, !.frames_read = e.frames_read,
                          !.decoded = buffer,
                          !.pcmf32 = IF stereo THEN MixMono(buffer, frame_count)
                                     ELSE buffer,
                          !.pcmf32s = IF stereo THEN SplitChannels(buffer, frame_count)
                                      ELSE vs ]

NoCall == [ done |-> FALSE, fname |-> "", stereo |-> FALSE, ret |-> FALSE,
            opened |-> FALSE, closed |-> FALSE, lengthOk |-> FALSE, readOk |-> FALSE,
            frame_count |-> 0, frames_read |-> 0, decoded |-> <<>> ]

NoSource == [ channels |-> 1, frames |-> 0, data |-> <<>> ]

ReadAudioData ==
    /\ openDecoders < MaxLeaked
    /\ \E fname \in {"-", "file"}, stereo \in BOOLEAN : \E e \in Envs(fname) :
          \E r \in { read_audio_data(fname, pcmf32, pcmf32s, stereo, e) } :
             /\ pcmf32' = r.pcmf32
             /\ pcmf32s' = r.pcmf32s
             /\ openDecoders' = openDecoders + (IF r.opened /\ ~r.closed THEN 1 ELSE 0)
             /\ rdCall' = [ done |-> TRUE, fname |-> fname, stereo |-> stereo,
                            ret |-> r.ret, opened |-> r.opened, closed |-> r.closed,
                            lengthOk |-> r.lengthOk, readOk |-> r.readOk,
                            frame_count |-> r.frame_count,
                            frames_read |-> r.frames_read, decoded |-> r.decoded ]
    /\ UNCHANGED <<whisper_ffmpeg, source, tsVars, dnVars>>

RdNext == ReadAudioData

(***************************************************************************)
(* The linear resampler (ma_linear_resampler of miniaudio.h)               *)
(*                                                                         *)
(* An instance holds its rate ratio, its timer (inTimeInt, inTimeFrac),    *)
(* the two cached input samples it interpolates between (x0, x1) and the   *)
(* cache of its low-pass filter (lpf). Interpolated values are kept in     *)
(* units of 1/sampleRateOut and the low-pass filter is the two-tap sum     *)
(* y[k] = v[k] + v[k-1], so that all samples stay integers.                *)
(***************************************************************************)
WHISPER_SAMPLE_RATE == 16000
RNNOISE_SAMPLE_RATE == 48000
RNNOISE_FRAME_SIZE == 480
RNNOISE_SCALE == 32768

RECURSIVE Gcd(_, _)
Gcd(a, b) == IF b = 0 THEN a ELSE Gcd(b, a % b)

\* The static storage of an instance before any init.
NoResampler ==
    [ live |-> FALSE, inits |-> 0, sampleRateIn |-> 0, sampleRateOut |-> 0,
      inTimeInt |-> 0, inTimeFrac |-> 0, x0 |-> 0, x1 |-> 0, lpf |-> 0 ]

ma_linear_resampler_init(sampleRateIn, sampleRateOut, r) ==
    [ live |-> TRUE, inits |-> r.inits + 1,
      sampleRateIn |-> sampleRateIn \div Gcd(sampleRateIn, sampleRateOut),
      sampleRateOut |-> sampleRateOut \div Gcd(sampleRateIn, sampleRateOut),
      inTimeInt |-> 1, inTimeFrac |-> 0, x0 |-> 0, x1 |-> 0, lpf |-> 0 ]

ma_linear_resampler_uninit(r) == [ r EXCEPT !.live = FALSE ]

\* Clears the timer, the cached samples and the filter cache.
ma_linear_resampler_reset(r) ==
    [ r EXCEPT !.inTimeInt = 1, !.inTimeFrac = 0, !.x0 = 0, !.x1 = 0, !.lpf = 0 ]

InAdvanceInt(r) == r.sampleRateIn \div r.sampleRateOut
InAdvanceFrac(r) == r.sampleRateIn % r.sampleRateOut

\* The number of input frames that must be loaded before output frame k
\* (from 0) can be generated.
InputsNeeded(r, k) ==
    r.inTimeInt + k * InAdvanceInt(r)
    + (r.inTimeFrac + k * InAdvanceFrac(r)) \div r.sampleRateOut

ma_linear_resampler_get_expected_output_frame_count(r, inputFrameCount) ==
    LET c == (inputFrameCount * r.sampleRateOut) \div r.sampleRateIn
    IN IF InputsNeeded(r, c) <= inputFrameCount THEN c + 1 ELSE c

\* Generates at most frameCountOut frames from input: the frames produced
\* and the instance afterwards.
ma_linear_resampler_process_pcm_frames(r, input, frameCountOut) ==
    LET nIn  == Len(input)
        down == r.sampleRateIn > r.sampleRateOut
        K    == Cardinality({ k \in 0 .. frameCountOut - 1 : InputsNeeded(r, k) <= nIn })
        consumed == IF K < frameCountOut THEN nIn
                    ELSE IF K = 0 THEN 0 ELSE InputsNeeded(r, K - 1)
        \* the m-th frame loaded, low-pass filtered first when downsampling
        Loaded(m) == IF m = -1 THEN r.x0
                     ELSE IF m = 0 THEN r.x1
                     ELSE IF down
                          THEN input[m] + (IF m = 1 THEN r.lpf ELSE input[m - 1])
                          ELSE input[m]
        \* output frame k before the upsampling low-pass filter
        V(k) == LET m == InputsNeeded(r, k)
                    a == (r.inTimeFrac + k * InAdvanceFrac(r)) % r.sampleRateOut
                IN (r.sampleRateOut - a) * Loaded(m - 1) + a * Loaded(m)
    IN [ out |-> SubSeq([ j \in 1 .. K |->
                            IF down THEN V(j - 1)
                            ELSE V(j - 1) + (IF j = 1 THEN r.lpf ELSE V(j - 2)) ], 1, K),
         resampler |->
            [ r EXCEPT !.inTimeInt = InputsNeeded(r, K) - consumed,
                       !.inTimeFrac = (r.inTimeFrac + K * InAdvanceFrac(r)) % r.sampleRateOut,
                       !.x0 = Loaded(consumed - 1),
                       !.x1 = Loaded(consumed),
                       !.lpf = IF down
                               THEN (IF consumed = 0 THEN r.lpf ELSE input[consumed])
                               ELSE (IF K = 0 THEN r.lpf ELSE V(K - 1)) ] ]

(***************************************************************************)
(* Resampler lifecycle, resample_audio and denoise_audio                   *)
(***************************************************************************)

\* init_resamplers without the early return of line 40.
init_resamplers_always(initialized, up, down, okUp, okDown) ==
    IF ~okUp THEN
         [ ret |-> FALSE, initialized |-> initialized, up |-> up, down |-> down ]
    ELSE IF ~okDown THEN
         [ ret |-> FALSE, initialized |-> initialized,
           up |-> ma_linear_resampler_uninit(
                     ma_linear_resampler_init(WHISPER_SAMPLE_RATE, RNNOISE_SAMPLE_RATE, up)),
           down |-> down ]
    ELSE [ ret |-> TRUE, initialized |-> TRUE,
           up |-> ma_linear_resampler_init(WHISPER_SAMPLE_RATE, RNNOISE_SAMPLE_RATE, up),
           down |-> ma_linear_resampler_init(RNNOISE_SAMPLE_RATE, WHISPER_SAMPLE_RATE, down) ]

\* init_resamplers(), okUp and okDown being whether the two
\* ma_linear_resampler_init calls succeed.
init_resamplers(initialized, up, down, okUp, okDown) ==
    IF initialized THEN
         [ ret |-> TRUE, initialized |-> initialized, up |-> up, down |-> down ]
    ELSE IF ~okUp THEN
         [ ret |-> FALSE, initialized |-> initialized, up |-> up, down |-> down ]
    ELSE IF ~okDown THEN
         [ ret |-> FALSE, initialized |-> initialized,
           up |-> ma_linear_resampler_uninit(
                     ma_linear_resampler_init(WHISPER_SAMPLE_RATE, RNNOISE_SAMPLE_RATE, up)),
           down |-> down ]
    ELSE [ ret |-> TRUE, initialized |-> TRUE,
           up |-> ma_linear_resampler_init(WHISPER_SAMPLE_RATE, RNNOISE_SAMPLE_RATE, up),
           down |-> ma_linear_resampler_init(RNNOISE_SAMPLE_RATE, WHISPER_SAMPLE_RATE, down) ]

uninit_resamplers(initialized, up, down) ==
    IF ~initialized THEN [ initialized |-> initialized, up |-> up, down |-> down ]
    ELSE [ initialized |-> FALSE,
           up |-> ma_linear_resampler_uninit(up),
           down |-> ma_linear_resampler_uninit(down) ]

\* The conversion proper, lines 84-96, optionally without the reset of line 84.
Convert(resampler, input, reset) ==
    LET r0 == IF reset THEN ma_linear_resampler_reset(resampler) ELSE resampler
        output_frames ==
            ma_linear_resampler_get_expected_output_frame_count(r0, Len(input))
        p == ma_linear_resampler_process_pcm_frames(r0, input, output_frames)
    IN [ out |-> p.out, resampler |-> p.resampler, used |-> TRUE ]

\* resample_audio without the reset of line 84.
resample_audio_no_reset(resampler, input, initialized) ==
    IF input = <<>> \/ ~initialized
    THEN [ out |-> input, resampler |-> resampler, used |-> FALSE ]
    ELSE Convert(resampler, input, FALSE)

\* resample_audio without the g_resamplers_initialized test of line 81. An
\* instance that is not live has no defined behaviour: the call is recorded
\* as a use and hands its input back.
resample_audio_unguarded(resampler, input, initialized) ==
    IF input = <<>>
    THEN [ out |-> input, resampler |-> resampler, used |-> FALSE ]
    ELSE IF ~resampler.live
    THEN [ out |-> input, resampler |-> resampler, used |-> TRUE ]
    ELSE Convert(resampler, input, TRUE)

\* resample_audio(resampler, input): the output, the instance afterwards and
\* whether the instance was reset / asked to process.
resample_audio(resampler, input, initialized) ==
    IF input = <<>> \/ ~initialized
    THEN [ out |-> input, resampler |-> resampler, used |-> FALSE ]
    ELSE Convert(resampler, input, TRUE)

\* rnnoise_process_frame on one sample of a frame. The external denoiser is
\* any in-place transformation of the frame; the one here (doubling) tells a
\* sample it was handed once from one it was never handed and from one it
\* was handed twice.
rnnoise_process_frame(x) == 2 * x

\* The loop condition of line 108 with < for <=.
HasFullFrameStrict(i, size) == i + RNNOISE_FRAME_SIZE < size

\* The loop condition of line 108.
HasFullFrame(i, size) == i + RNNOISE_FRAME_SIZE <= size

\* The frame loop of lines 108-121 from offset i on: the buffer afterwards
\* and the offsets of the frames handed to the denoiser, in call order.
RECURSIVE FrameLoop(_, _, _)
FrameLoop(pcmf32_48k, i, handed) ==
    IF HasFullFrame(i, Len(pcmf32_48k))
    THEN FrameLoop([ k \in 1 .. Len(pcmf32_48k) |->
                       IF k > i /\ k <= i + RNNOISE_FRAME_SIZE
                       THEN TruncDiv(rnnoise_process_frame(pcmf32_48k[k] * RNNOISE_SCALE),
                                     RNNOISE_SCALE)
                       ELSE pcmf32_48k[k] ],
                   i + RNNOISE_FRAME_SIZE,
                   Append(handed, i))
    ELSE [ buf |-> pcmf32_48k, handed |-> handed ]

\* denoise_audio(st, pcmf32): the vector on return, the two instances
\* afterwards and what the call did on the way.
denoise_audio(input, initialized, up, down) ==
    IF input = <<>>
    THEN [ pcmf32 |-> input, up |-> up, down |-> down, upOut |-> <<>>,
           downIn |-> <<>>, handed |-> <<>>, upUsed |-> FALSE, downUsed |-> FALSE ]
    ELSE LET u == resample_audio(up, input, initialized)
             f == FrameLoop(u.out, 0, <<>>)
             d == resample_audio(down, f.buf, initialized)
         IN [ pcmf32 |-> d.out, up |-> u.resampler, down |-> d.resampler,
              upOut |-> u.out, downIn |-> f.buf, handed |-> f.handed,
              upUsed |-> u.used, downUsed |-> d.used ]

\* Inputs of denoise_audio: 0..MaxQ whole denoiser frames (a denoiser frame
\* is FrameIn samples at the whisper rate) plus 0 or 1 sample.
FrameIn == (RNNOISE_FRAME_SIZE * WHISPER_SAMPLE_RATE) \div RNNOISE_SAMPLE_RATE

PcmLengths == { q * FrameIn + d : q \in 0 .. MaxQ, d \in 0 .. 1 }

Pcm(n) == [ i \in 1 .. n |-> (i % 3) - 1 ]

NoDnCall ==
    [ op |-> "none", ret |-> TRUE, initialized |-> FALSE,
      carried |-> FALSE, upSame |-> TRUE, downSame |-> TRUE, input |-> <<>>,
      upOut |-> <<>>, downIn |-> <<>>, handed |-> <<>>,
      upUsed |-> FALSE, downUsed |-> FALSE ]

\* The record of a call made in the current state that leaves the instances
\* as up and down; carried: on entry both instances hold what an earlier
\* conversion left in them (a reset would change them).
Called(op, up, down) ==
    [ NoDnCall EXCEPT !.op = op, !.initialized = g_resamplers_initialized,
                      !.carried =
                         /\ g_resampler_16k_to_48k
                               # ma_linear_resampler_reset(g_resampler_16k_to_48k)
                         /\ g_resampler_48k_to_16k
                               # ma_linear_resampler_reset(g_resampler_48k_to_16k),
                      !.upSame = (up = g_resampler_16k_to_48k),
                      !.downSame = (down = g_resampler_48k_to_16k) ]

InitResamplers ==
    /\ \/ g_resamplers_initialized
       \/ /\ g_resampler_16k_to_48k.inits < MaxInits
          /\ g_resampler_48k_to_16k.inits < MaxInits
    /\ \E okUp \in BOOLEAN, okDown \in BOOLEAN :
          \E r \in { init_resamplers(g_resamplers_initialized, g_resampler_16k_to_48k,
                                     g_resampler_48k_to_16k, okUp, okDown) } :
             /\ g_resamplers_initialized' = r.initialized
             /\ g_resampler_16k_to_48k' = r.up
             /\ g_resampler_48k_to_16k' = r.down
             /\ dnCall' = [ Called("init", r.up, r.down) EXCEPT !.ret = r.ret ]
    /\ UNCHANGED <<dn_pcmf32, tsVars, rdVars>>

UninitResamplers ==
    /\ \E r \in { uninit_resamplers(g_resamplers_initialized, g_resampler_16k_to_48k,
                                    g_resampler_48k_to_16k) } :
          /\ g_resamplers_initialized' = r.initialized
          /\ g_resampler_16k_to_48k' = r.up
          /\ g_resampler_48k_to_16k' = r.down
          /\ dnCall' = Called("uninit", r.up, r.down)
    /\ UNCHANGED <<dn_pcmf32, tsVars, rdVars>>

DenoiseAudio ==
    \E n \in PcmLengths :
       \E r \in { denoise_audio(Pcm(n), g_resamplers_initialized,
                                g_resampler_16k_to_48k, g_resampler_48k_to_16k) } :
          /\ dn_pcmf32' = r.pcmf32
          /\ g_resampler_16k_to_48k' = r.up
          /\ g_resampler_48k_to_16k' = r.down
          /\ dnCall' = [ Called("denoise", r.up, r.down) EXCEPT
                            !.input = Pcm(n), !.upOut = r.upOut,
                            !.downIn = r.downIn, !.handed = r.handed,
                            !.upUsed = r.upUsed, !.downUsed = r.downUsed ]
          /\ UNCHANGED <<g_resamplers_initialized, tsVars, rdVars>>

DnNext == InitResamplers \/ UninitResamplers \/ DenoiseAudio

(***************************************************************************)
(* Timestamp mapper                                                        *)
(***************************************************************************)
BufSize == 32

Digit(d) == <<"0", "1", "2", "3", "4", "5", "6", "7", "8", "9">>[d + 1]

RECURSIVE Digits(_)
Digits(n) == IF n < 10 THEN <<Digit(n)>> ELSE Digits(n \div 10) \o <<Digit(n % 10)>>

RECURSIVE ZeroPad(_, _)
ZeroPad(s, width) == IF Len(s) >= width THEN s ELSE ZeroPad(<<"0">> \o s, width)

\* printf's %0<width>d
FormatInt(v, width) ==
    IF v < 0 THEN <<"-">> \o ZeroPad(Digits(-v), width - 1)
    ELSE ZeroPad(Digits(v), width)

\* snprintf(buf, sizeof(buf), ...) keeps at most sizeof(buf) - 1 characters.
Snprintf(s) == SubSeq(s, 1, Min(Len(s), BufSize - 1))

\* to_timestamp, given the value msec0 that t * 10 produced.
to_timestamp(msec0, comma) ==
    LET hr    == TruncDiv(msec0, 1000 * 60 * 60)
        msec1 == msec0 - hr * (1000 * 60 * 60)
        min   == TruncDiv(msec1, 1000 * 60)
        msec2 == msec1 - min * (1000 * 60)
        sec   == TruncDiv(msec2, 1000)
        msec  == msec2 - sec * 1000
    IN [ hr64 |-> hr, min64 |-> min, sec64 |-> sec, msec64 |-> msec,
         hr |-> CastInt(hr), min |-> CastInt(min), sec |-> CastInt(sec),
         msec |-> CastInt(msec),
         str |-> Snprintf(FormatInt(CastInt(hr), 2) \o <<":">>
                          \o FormatInt(CastInt(min), 2) \o <<":">>
                          \o FormatInt(CastInt(sec), 2)
                          \o <<IF comma THEN "," ELSE ".">>
                          \o FormatInt(CastInt(msec), 3)) ]

\* timestamp_to_sample without the lower clamp std::max(0, ...).
timestamp_to_sample_no_lower_clamp(prod, n_samples) ==
    Min(n_samples - 1, CastInt(TruncDiv(prod, 100)))

\* timestamp_to_sample, given the value prod that t * whisper_sample_rate produced.
timestamp_to_sample(prod, n_samples) ==
    Max(0, Min(n_samples - 1, CastInt(TruncDiv(prod, 100))))

TValues ==
    (0 .. MaxSmallT)
    \cup { WideMax - k : k \in 0 .. MaxSmallT }
    \cup { (WideMax \div 10) + d : d \in 0 .. 1 }
    \cup { h * 360000 + r : h \in 0 .. MaxHours, r \in {0, 500, 6000} }

NValues == (1 .. MaxN) \cup {IntMax}

Rates == {-1, 0, 1, 16, IntMax}

NoResult == [ hr64 |-> 0, min64 |-> 0, sec64 |-> 0, msec64 |-> 0,
              hr |-> 0, min |-> 0, sec |-> 0, msec |-> 0, str |-> <<>> ]

NoTsCall ==
    [ fn |-> "none", t |-> 0, comma |-> FALSE, n_samples |-> 0, rate |-> 0,
      done |-> FALSE, wide |-> 0, fmt |-> NoResult, sample |-> 0 ]

TsCalls ==
    { [ NoTsCall EXCEPT !.fn = "to_timestamp", !.t = t, !.comma = comma ] :
        t \in TValues, comma \in BOOLEAN }
    \cup
    { [ NoTsCall EXCEPT !.fn = "timestamp_to_sample", !.t = t, !.n_samples = n,
                       !.rate = rate ] :
        t \in TValues, n \in NValues, rate \in Rates }

ToTimestamp ==
    /\ tsCall.fn = "to_timestamp"
    /\ ~tsCall.done
    /\ \E msec0 \in MulWide(tsCall.t, 10) :
          tsCall' = [ tsCall EXCEPT !.done = TRUE, !.wide = msec0,
                                    !.fmt = to_timestamp(msec0, tsCall.comma) ]
    /\ UNCHANGED <<rdVars, dnVars>>

TimestampToSample ==
    /\ tsCall.fn = "timestamp_to_sample"
    /\ ~tsCall.done
    /\ \E prod \in MulWide(tsCall.t, tsCall.rate) :
          tsCall' = [ tsCall EXCEPT !.done = TRUE, !.wide = prod,
                                    !.sample = timestamp_to_sample(prod, tsCall.n_samples) ]
    /\ UNCHANGED <<rdVars, dnVars>>

TsNext == ToTimestamp \/ TimestampToSample

(***************************************************************************)
(* Specifications: one per component; the other components stay idle.      *)
(***************************************************************************)
TsInit ==
    /\ tsCall \in TsCalls
    /\ whisper_ffmpeg = FALSE
    /\ source = NoSource
    /\ pcmf32 = <<>>
    /\ pcmf32s = <<>>
    /\ openDecoders = 0
    /\ rdCall = NoCall
    /\ g_resamplers_initialized = FALSE
    /\ g_resampler_16k_to_48k = NoResampler
    /\ g_resampler_48k_to_16k = NoResampler
    /\ dn_pcmf32 = <<>>
    /\ dnCall = NoDnCall

SpecTime == TsInit /\ [][TsNext]_vars

RdInit ==
    /\ tsCall = NoTsCall
    /\ whisper_ffmpeg \in BOOLEAN
    /\ source \in Sources
    /\ pcmf32 = <<>>
    /\ pcmf32s = <<>>
    /\ openDecoders = 0
    /\ rdCall = NoCall
    /\ g_resamplers_initialized = FALSE
    /\ g_resampler_16k_to_48k = NoResampler
    /\ g_resampler_48k_to_16k = NoResampler
    /\ dn_pcmf32 = <<>>
    /\ dnCall = NoDnCall

SpecRead == RdInit /\ [][RdNext]_vars

DnInit ==
    /\ tsCall = NoTsCall
    /\ whisper_ffmpeg = FALSE
    /\ source = NoSource
    /\ pcmf32 = <<>>
    /\ pcmf32s = <<>>
    /\ openDecoders = 0
    /\ rdCall = NoCall
    /\ g_resamplers_initialized = FALSE
    /\ g_resampler_16k_to_48k = NoResampler
    /\ g_resampler_48k_to_16k = NoResampler
    /\ dn_pcmf32 = <<>>
    /\ dnCall = NoDnCall

SpecDenoise == DnInit /\ [][DnNext]_vars

(***************************************************************************)
(* Claims about the timestamp mapper                                       *)
(***************************************************************************)

\* C7: for every non-negative t and every n_samples > 0, timestamp_to_sample
\* returns an index in [0, n_samples - 1], also when (t * rate) / 100 does
\* not fit in an int and the cast truncates it.
C7_SampleIndexInRange ==
    (/\ tsCall.fn = "timestamp_to_sample"
     /\ tsCall.done
     /\ tsCall.t >= 0
     /\ tsCall.n_samples > 0)
    => (tsCall.sample >= 0 /\ tsCall.sample <= tsCall.n_samples - 1)

\* A call whose quotient does not fit in an int (the cast truncated it) and
\* whose product did not overflow, returning an index of the buffer.
C7_Witness ==
    /\ tsCall.fn = "timestamp_to_sample"
    /\ tsCall.done
    /\ tsCall.t >= 0
    /\ tsCall.n_samples > 1
    /\ MulFits(tsCall.t, tsCall.rate)
    /\ TruncDiv(tsCall.wide, 100) > IntMax
    /\ CastInt(TruncDiv(tsCall.wide, 100)) # TruncDiv(tsCall.wide, 100)
    /\ tsCall.sample \in 0 .. tsCall.n_samples - 1

\* C8: for every non-negative t of the int64_t range, t * 10 does not wrap,
\* the casts to int do not truncate, minutes < 60, seconds < 60,
\* milliseconds < 1000 and the formatted fields add up to 10 * t.
C8_TimestampExactOnWholeRange ==
    (/\ tsCall.fn = "to_timestamp"
     /\ tsCall.done
     /\ tsCall.t >= 0)
    => /\ tsCall.t <= WideMax \div 10
       /\ tsCall.fmt.hr = tsCall.fmt.hr64
       /\ tsCall.fmt.min = tsCall.fmt.min64
       /\ tsCall.fmt.sec = tsCall.fmt.sec64
       /\ tsCall.fmt.msec = tsCall.fmt.msec64
       /\ tsCall.fmt.min >= 0 /\ tsCall.fmt.min < 60
       /\ tsCall.fmt.sec >= 0 /\ tsCall.fmt.sec < 60
       /\ tsCall.fmt.msec >= 0 /\ tsCall.fmt.msec < 1000
       /\ tsCall.fmt.hr * 3600000 + tsCall.fmt.min * 60000
            + tsCall.fmt.sec * 1000 + tsCall.fmt.msec = 10 * tsCall.t

\* The examples of the documentation.
TimestampExamples ==
    (tsCall.fn = "to_timestamp" /\ tsCall.done) =>
       /\ (tsCall.t = 0 /\ ~tsCall.comma) =>
             tsCall.fmt.str = <<"0","0",":","0","0",":","0","0",".","0","0","0">>
       /\ (tsCall.t = 6000 /\ ~tsCall.comma) =>
             tsCall.fmt.str = <<"0","0",":","0","1",":","0","0",".","0","0","0">>
       /\ (tsCall.t = 500 /\ tsCall.comma) =>
             tsCall.fmt.str = <<"0","0",":","0","0",":","0","5",",","0","0","0">>

(***************************************************************************)
(* Claims about read_audio_data                                            *)
(***************************************************************************)

\* C1: every read_audio_data call that opened the decoder has closed it
\* (ma_decoder_uninit) when it returns, on every exit path, the early
\* returns after a failed length query or a failed read included.
C1_DecoderClosedOnEveryExit ==
    (rdCall.done /\ rdCall.opened) => (rdCall.closed /\ openDecoders = 0)

\* C2: read_audio_data never reports success for a partial read: when the
\* decoder delivers fewer frames than the frame count it reported, the call
\* returns false.
C2_PartialReadIsFailure ==
    (/\ rdCall.done
     /\ rdCall.lengthOk
     /\ rdCall.frames_read < rdCall.frame_count)
    => rdCall.ret = FALSE

\* C3: stereo = true on a source with one channel leaves the channel set
\* pcmf32s empty, and pcmf32 holds the samples of a direct mono decode
\* (stereo = false) of the same source, frame_count of them.
C3_StereoOnMonoSource ==
    (/\ rdCall.done
     /\ rdCall.ret
     /\ rdCall.stereo
     /\ source.channels = 1
     /\ rdCall.frames_read = rdCall.frame_count)
    => /\ pcmf32s = <<>>
       /\ Len(pcmf32) = rdCall.frame_count
       /\ pcmf32 = DecoderOutput(source, 1)

\* C6: a successful stereo = true decode of N frames leaves pcmf32 of
\* length N and pcmf32s of exactly two channels of length N each, channel 0
\* and channel 1 holding the decoded samples 2*i and 2*i + 1 (the samples of
\* the source itself when it has two channels and was read whole), and
\* pcmf32[i] = pcmf32s[0][i] + pcmf32s[1][i] for every frame i.
C6_StereoDemux ==
    (/\ rdCall.done
     /\ rdCall.ret
     /\ rdCall.stereo)
    => LET N == rdCall.frame_count
       IN /\ Len(pcmf32) = N
          /\ Len(pcmf32s) = 2
          /\ Len(pcmf32s[1]) = N
          /\ Len(pcmf32s[2]) = N
          /\ Len(rdCall.decoded) = 2 * N
          /\ \A i \in 1 .. N :
                /\ pcmf32s[1][i] = rdCall.decoded[2 * i - 1]
                /\ pcmf32s[2][i] = rdCall.decoded[2 * i]
                /\ pcmf32[i] = pcmf32s[1][i] + pcmf32s[2][i]
                /\ (source.channels = 2 /\ rdCall.frames_read = N) =>
                      /\ pcmf32s[1][i] = source.data[2 * i - 1]
                      /\ pcmf32s[2][i] = source.data[2 * i]

\* A whole two-channel source of at least two frames decoded with
\* stereo = true, with a frame whose channels differ and do not cancel.
C6_Witness ==
    /\ rdCall.done
    /\ rdCall.ret
    /\ rdCall.stereo
    /\ source.channels = 2
    /\ rdCall.frame_count >= 2
    /\ rdCall.frames_read = rdCall.frame_count
    /\ Len(pcmf32s) = 2
    /\ \E i \in 1 .. rdCall.frame_count :
          /\ pcmf32s[1][i] # pcmf32s[2][i]
          /\ pcmf32[i] # 0
          /\ pcmf32[i] = source.data[2 * i - 1] + source.data[2 * i]

(***************************************************************************)
(* Claims about the resampler lifecycle and denoise_audio                  *)
(***************************************************************************)

\* The output of a conversion of input by a just-initialised instance.
FreshUp == ma_linear_resampler_init(WHISPER_SAMPLE_RATE, RNNOISE_SAMPLE_RATE, NoResampler)
FreshDown == ma_linear_resampler_init(RNNOISE_SAMPLE_RATE, WHISPER_SAMPLE_RATE, NoResampler)
FreshOutput(r, input) ==
    ma_linear_resampler_process_pcm_frames(r, input,
        ma_linear_resampler_get_expected_output_frame_count(r, Len(input))).out

\* C4: init_resamplers is idempotent: called while the resamplers are
\* initialized it returns true and changes neither instance (no
\* re-initialisation) nor the flag; in every state the flag is true exactly
\* when both instances are live; uninit_resamplers leaves the flag false
\* and both instances released, and changes nothing when the flag was false.
C4_InitIdempotent ==
    /\ g_resamplers_initialized
         <=> (g_resampler_16k_to_48k.live /\ g_resampler_48k_to_16k.live)
    /\ (dnCall.op = "init" /\ dnCall.initialized) =>
          /\ dnCall.ret
          /\ dnCall.upSame
          /\ dnCall.downSame
          /\ g_resamplers_initialized
    /\ (dnCall.op = "init") => (dnCall.ret <=> g_resamplers_initialized)
    /\ (dnCall.op = "uninit") =>
          /\ ~g_resamplers_initialized
          /\ ~g_resampler_16k_to_48k.live
          /\ ~g_resampler_48k_to_16k.live
          /\ ~dnCall.initialized => (dnCall.upSame /\ dnCall.downSame)

\* init_resamplers called again on initialized resamplers that a conversion
\* has used since their initialisation.
C4_Witness ==
    /\ dnCall.op = "init"
    /\ dnCall.initialized
    /\ dnCall.carried
    /\ dnCall.ret
    /\ g_resamplers_initialized
    /\ g_resampler_16k_to_48k.inits = 1
    /\ g_resampler_16k_to_48k.x1 # 0

\* C5: an instance is reset or asked to process frames only while the
\* resamplers are initialized (and the instance live); a denoise_audio call
\* made while they are not initialized gets its input back from both
\* conversions and leaves both instances as they were.
C5_UsedOnlyWhileInitialized ==
    (dnCall.op = "denoise") =>
       /\ (dnCall.upUsed \/ dnCall.downUsed) =>
             /\ dnCall.initialized
             /\ g_resampler_16k_to_48k.live
             /\ g_resampler_48k_to_16k.live
       /\ ~dnCall.initialized =>
             /\ ~dnCall.upUsed
             /\ ~dnCall.downUsed
             /\ dnCall.upOut = dnCall.input
             /\ dn_pcmf32 = dnCall.downIn
             /\ dnCall.upSame
             /\ dnCall.downSame
             /\ dnCall.ret

\* A conversion of a non-empty input requested after the teardown of
\* resamplers that had been initialised and used.
C5_Witness ==
    /\ dnCall.op = "denoise"
    /\ ~dnCall.initialized
    /\ dnCall.carried
    /\ dnCall.input # <<>>
    /\ g_resampler_16k_to_48k.inits >= 1
    /\ ~dnCall.upUsed
    /\ dn_pcmf32 = dnCall.input

\* C9: with initialized resamplers and a non-empty input, each conversion
\* resets its instance first, so its output is the one a just-initialised
\* instance produces for the same input, whatever the instance converted
\* before.
C9_ConversionStateless ==
    (/\ dnCall.op = "denoise"
     /\ dnCall.initialized
     /\ dnCall.input # <<>>)
    => /\ dnCall.upUsed
       /\ dnCall.downUsed
       /\ dnCall.upOut = FreshOutput(FreshUp, dnCall.input)
       /\ dn_pcmf32 = FreshOutput(FreshDown, dnCall.downIn)

\* A conversion of a non-empty input by instances that, on entry, still
\* held what an earlier conversion had left in them.
C9_Witness ==
    /\ dnCall.op = "denoise"
    /\ dnCall.initialized
    /\ dnCall.carried
    /\ dnCall.input # <<>>
    /\ dnCall.upUsed
    /\ dnCall.downUsed
    /\ Len(dnCall.upOut) = 3 * Len(dnCall.input)
    /\ Len(dn_pcmf32) = Len(dnCall.input)

\* C10: for a non-empty input whose upsampled buffer has length L the
\* denoiser is handed exactly floor(L / 480) frames, at the offsets
\* 0, 480, 960, ... in this order; every sample of those windows went
\* through the denoiser once, and the trailing L mod 480 samples reach the
\* downsampling step as the upsampler produced them. For an empty input
\* neither the denoiser nor a resampler is invoked and the buffer is unchanged.
C10_FullFramesOnly ==
    (dnCall.op = "denoise") =>
       LET L == Len(dnCall.upOut)
           full == L \div RNNOISE_FRAME_SIZE
       IN IF dnCall.input = <<>>
          THEN /\ dnCall.handed = <<>>
               /\ ~dnCall.upUsed
               /\ ~dnCall.downUsed
               /\ dnCall.upSame
               /\ dnCall.downSame
               /\ dn_pcmf32 = <<>>
          ELSE /\ dnCall.handed = [ k \in 1 .. full |-> RNNOISE_FRAME_SIZE * (k - 1) ]
               /\ Len(dnCall.downIn) = L
               /\ \A i \in 1 .. L :
                     dnCall.downIn[i] =
                        IF i <= full * RNNOISE_FRAME_SIZE
                        THEN TruncDiv(rnnoise_process_frame(dnCall.upOut[i] * RNNOISE_SCALE),
                                      RNNOISE_SCALE)
                        ELSE dnCall.upOut[i]

\* An upsampled buffer of two full frames and a partial one, whose
\* trailing samples are not silent and whose full frames the denoiser changed.
C10_Witness ==
    /\ dnCall.op = "denoise"
    /\ dnCall.initialized
    /\ Len(dnCall.upOut) > 2 * RNNOISE_FRAME_SIZE
    /\ Len(dnCall.upOut) % RNNOISE_FRAME_SIZE # 0
    /\ Len(dnCall.handed) = 2
    /\ \E i \in 2 * RNNOISE_FRAME_SIZE + 1 .. Len(dnCall.upOut) :
          dnCall.downIn[i] # 0 /\ dnCall.downIn[i] = dnCall.upOut[i]
    /\ \E i \in 1 .. 2 * RNNOISE_FRAME_SIZE : dnCall.downIn[i] # dnCall.upOut[i]

====
